---- MODULE Spec2Model ----
(***************************************************************************)
(* A model of dragon::Workspace (Dragon/include/core/workspace.h): the     *)
(* tensor registry with its alias table, the composition of workspaces,    *)
(* the buffer stacks and the per-name lock table.                          *)
(*                                                                         *)
(* A workspace is a number in 1..MaxWs; a Tensor* is a triple               *)
(* <<workspace, key, generation>>: the workspace whose tensor_map_ owns    *)
(* the tensor, the key it is stored under (which is also the tensor's      *)
(* name, since every tensor is made by `new Tensor(query)` and stored      *)
(* under `query`), and the count of tensors allocated under that key so    *)
(* far.  A null unique_ptr left in tensor_map_ by operator[] is            *)
(* generation 0.                                                           *)
(***************************************************************************)
EXTENDS Integers, Sequences, FiniteSets, TLC

\* ------------------------------------------------------------- bounds
MaxWs == 2
MaxGen == 2
MaxNum == 1
MaxCalls == 5
MaxThreads == 2

\* ------------------------------------------------- program constants
WORKSPACE_COMMON_BUFFER_SIZE == 2
WORKSPACE_GRAD_BUFFER_SIZE == 1

\* ------------------------------------------------- inputs of the calls
WsNames == {"A", "B"}
Names == {"x", "y", "z"}
AliasPairs == {<<"x", "y">>, <<"y", "z">>}
Categories == {"Common", "Grad", "X"}

LockNames == {"x", "y"}

\* a TensorFiller is <<tensor(), type>>
FillerNames == {"", "x", "y"}
FillerTypes == {1, 2}
Fillers == FillerNames \X FillerTypes

\* the names of the graphs that are created, and of those that are run
GraphNames == {"g", "h"}
RunNames == {"g", "h", "k"}

VARIABLES
    name_,            \* workspace -> its name ("": not constructed)
    workspace_map_,   \* workspace -> the composed workspaces, as iterated
    tensor_map_,      \* workspace -> [key -> generation of the tensor, 0 = null]
    buffer_map_,      \* workspace -> [category -> stack of names, top last]
    rename_map_,      \* workspace -> [old name -> new name]
    lock_map_,        \* workspace -> [query -> mutex]
    last,             \* the last call and how it ended
    calls,            \* the calls made so far
    owner,            \* mutex -> the thread that holds it, 0 = free
    pc,               \* thread -> where it is in LockTensor / UnlockTensor
    arg,              \* thread -> the name it passed
    attached,         \* workspace -> the composed workspaces, in the order of
                      \* the MoveWorkspace calls that added them (history)
    filler_map_,      \* workspace -> [tensor name -> filler]
    graph_map_,       \* workspace -> the names of its graphs
    defined,          \* workspace -> the fillers CreateFiller was given and
                      \* did not reject, in the order of the calls (history)
    held              \* the <<workspace, category, pointer>> GetBuffer returned
                      \* and ReleaseBuffer was not given back yet (history)

maps == <<name_, workspace_map_, tensor_map_, buffer_map_, rename_map_, attached,
          filler_map_, graph_map_, defined, held>>
locks == <<lock_map_, owner, pc, arg>>
vars == <<name_, workspace_map_, tensor_map_, buffer_map_, rename_map_, lock_map_,
          last, calls, owner, pc, arg, attached, filler_map_, graph_map_,
          defined, held>>

Threads == 1..MaxThreads

\* ------------------------------------------------------------ helpers
NullTensor == <<0, "", 0>>
NoTensor == <<0, "void", 0>>

\* name_[w] = "" marks a workspace that is not constructed yet
Workspaces == {w \in 1..MaxWs : name_[w] # ""}

EmptyMap == [x \in {} |-> 0]

Put(f, k, v) == [x \in (DOMAIN f) \cup {k} |-> IF x = k THEN v ELSE f[x]]

\* tensor_map_[key].get() for a key that is present
TensorAt(tm, w, key) ==
    IF tm[w][key] = 0 THEN NullTensor ELSE <<w, key, tm[w][key]>>

\* the tensors that are allocated and not destroyed
LiveTensors ==
    UNION {{<<w, k, tensor_map_[w][k]>> :
               k \in {j \in DOMAIN tensor_map_[w] : tensor_map_[w][j] > 0}} :
           w \in 1..MaxWs}

\* the process is alive, and the run may make one more call
Running == last.out = "ok"

\* a call of GetBuffer or ReleaseBuffer
BufferCall ==
    /\ Running /\ calls < MaxCalls /\ calls' = calls + 1
    /\ UNCHANGED <<locks, filler_map_, graph_map_, defined>>

Call == BufferCall /\ UNCHANGED held

\* a bool as a value of the shape of a pointer
Bool(b) == <<0, IF b THEN "true" ELSE "false", 0>>

\* a Workspace* as a value of the same shape as a Tensor*
WorkspacePtr(v) == <<v, "workspace", 0>>

\* the last call: the operation, the workspace it was called on, the
\* pointer it returned, the tensor it reset, and how it ended: "ok" (it
\* returned), "fatal" (CHECK or LOG(FATAL) ended the process), "overflow"
\* (the recursion never returned), "crash" (undefined behaviour: a null
\* pointer was dereferenced)
Outcome(op, w, ret, reset, out) ==
    [op |-> op, ws |-> w, ret |-> ret, reset |-> reset, out |-> out]

\* ------------------------------------------------------ GetTensorName
GetTensorName(w, name) ==
    IF name \in DOMAIN rename_map_[w] THEN rename_map_[w][name] ELSE name

\* ------------------------------------------------- composition, cycles
Remotes(w) == {workspace_map_[w][i] : i \in 1..Len(workspace_map_[w])}

RECURSIVE ReachFrom(_, _)
ReachFrom(S, n) ==
    IF n = 0 THEN S ELSE ReachFrom(S \cup UNION {Remotes(v) : v \in S}, n - 1)

Composed(w) == ReachFrom(Remotes(w), MaxWs)

\* a test for a cycle that sees only a workspace composed into itself
RecursesSelf(w) == \E v \in Composed(w) \cup {w} : v \in Remotes(v)

\* a remote search started in w recurses without end: a cycle of the
\* composition can be reached from w (HasTensor visits every remote)
Recurses(w) == \E v \in Composed(w) \cup {w} : v \in Composed(v)

\* the calls of HasTensor (or GetTensors) nested in one started in w go d
\* deep: every workspace of workspace_map_ is called, whatever the result
\* so far
RECURSIVE Deep(_, _)
Deep(w, d) == IF d = 0 THEN TRUE ELSE \E v \in Remotes(w) : Deep(v, d - 1)

\* ---------------------------------------------------------- HasTensor
\* a HasTensor that never asks the composed workspaces
HasTensorLocal(tm, w, name, use_remote) == GetTensorName(w, name) \in DOMAIN tm[w]

RECURSIVE HasTensor(_, _, _, _)
HasTensor(tm, w, name, use_remote) ==
    LET query == GetTensorName(w, name)
        result == query \in DOMAIN tm[w]
    IN  IF ~use_remote THEN result
        ELSE result \/ \E i \in 1..Len(workspace_map_[w]) :
                          HasTensor(tm, workspace_map_[w][i], query, TRUE)

\* ------------------------------------------------------- CreateTensor
\* tensor_map_ after CreateTensor(name) in w, when the search returns
CreateTensorMap(tm, w, name) ==
    LET query == GetTensorName(w, name)
    IN  IF ~HasTensor(tm, w, query, TRUE)
        THEN [tm EXCEPT ![w] =
                 Put(@, query, (IF query \in DOMAIN @ THEN @[query] ELSE 0) + 1)]
        ELSE IF query \in DOMAIN tm[w] THEN tm
             ELSE [tm EXCEPT ![w] = Put(@, query, 0)]

\* ---------------------------------------------------------- GetTensor
RECURSIVE GetTensorRet(_, _, _)
RECURSIVE SearchRemote(_, _, _)
GetTensorRet(w, name, use_remote) ==
    LET query == GetTensorName(w, name)
    IN  IF query \in DOMAIN tensor_map_[w]
        THEN [out |-> "ok", ret |-> TensorAt(tensor_map_, w, query)]
        ELSE IF use_remote THEN SearchRemote(w, query, 1)
             ELSE [out |-> "fatal", ret |-> NoTensor]

SearchRemote(w, query, i) ==
    IF i > Len(workspace_map_[w]) THEN [out |-> "fatal", ret |-> NoTensor]
    ELSE LET it == workspace_map_[w][i]
         IN  IF Recurses(it) THEN [out |-> "overflow", ret |-> NoTensor]
             ELSE IF HasTensor(tensor_map_, it, query, TRUE)
                  THEN GetTensorRet(it, query, TRUE)
                  ELSE SearchRemote(w, query, i + 1)

\* ------------------------------------------------------------ buffers
\* "_t_" + category + "_buffer_" + dragon_cast<string, int>(i), tabulated
BufferNames ==
    [category \in Categories, i \in 1..(MaxNum + WORKSPACE_COMMON_BUFFER_SIZE) |->
        "_t_" \o category \o "_buffer_" \o ToString(i)]

BufferName(category, i) == BufferNames[category, i]

limits(category) ==
    IF category = "Common" THEN WORKSPACE_COMMON_BUFFER_SIZE
    ELSE IF category = "Grad" THEN WORKSPACE_GRAD_BUFFER_SIZE
    ELSE 0

\* the loop of CreateBuffer from index i on: <<stack, tensor maps>>
RECURSIVE CreateBufferLoop(_, _, _, _, _, _)
CreateBufferLoop(stack, tm, w, category, i, num) ==
    IF i > num THEN <<stack, tm>>
    ELSE CreateBufferLoop(Append(stack, BufferName(category, i)),
                          CreateTensorMap(tm, w, BufferName(category, i)),
                          w, category, i + 1, num)

\* CreateBuffer(category, num) once its CHECK has passed: <<buffer maps, tensor maps>>
CreateBufferMaps(bm, tm, w, category, num) ==
    LET r == CreateBufferLoop(<<>>, tm, w, category, 1, num)
    IN  <<[bm EXCEPT ![w] = Put(@, category, r[1])], r[2]>>

\* ---------------------------------------------------------------- init
\* an init() that sizes both default categories with the Grad size
InitMapsOneCommon(bm, tm, w) ==
    LET t == CreateTensorMap(tm, w, "ignore")
        c == CreateBufferMaps(bm, t, w, "Common", WORKSPACE_GRAD_BUFFER_SIZE)
    IN  CreateBufferMaps(c[1], c[2], w, "Grad", WORKSPACE_GRAD_BUFFER_SIZE)

\* Workspace(name): init() in a workspace whose maps are all empty
InitMaps(bm, tm, w) ==
    LET t == CreateTensorMap(tm, w, "ignore")
        c == CreateBufferMaps(bm, t, w, "Common", WORKSPACE_COMMON_BUFFER_SIZE)
    IN  CreateBufferMaps(c[1], c[2], w, "Grad", WORKSPACE_GRAD_BUFFER_SIZE)

Init ==
    /\ name_ = [w \in 1..MaxWs |-> IF w = 1 THEN "A" ELSE ""]
    /\ workspace_map_ = [w \in 1..MaxWs |-> <<>>]
    /\ attached = [w \in 1..MaxWs |-> <<>>]
    /\ rename_map_ = [w \in 1..MaxWs |-> EmptyMap]
    /\ LET m == InitMaps([w \in 1..MaxWs |-> EmptyMap], [w \in 1..MaxWs |-> EmptyMap], 1)
       IN  buffer_map_ = m[1] /\ tensor_map_ = m[2]
    /\ last = Outcome("construct", 1, NoTensor, NoTensor, "ok")
    /\ calls = 0
    /\ lock_map_ = [w \in 1..MaxWs |-> EmptyMap]
    /\ owner = EmptyMap
    /\ pc = [t \in Threads |-> "idle"]
    /\ arg = [t \in Threads |-> ""]
    /\ filler_map_ = [w \in 1..MaxWs |-> EmptyMap]
    /\ graph_map_ = [w \in 1..MaxWs |-> {}]
    /\ defined = [w \in 1..MaxWs |-> <<>>]
    /\ held = {}

\* Workspace(name): the next workspace is constructed
Construct(name) ==
    /\ Call
    /\ \E w \in 1..MaxWs :
          /\ name_[w] = ""
          /\ \A v \in 1..(w - 1) : name_[v] # ""
          /\ name_' = [name_ EXCEPT ![w] = name]
          /\ LET m == InitMaps(buffer_map_, tensor_map_, w)
             IN  buffer_map_' = m[1] /\ tensor_map_' = m[2]
          /\ last' = Outcome("construct", w, NoTensor, NoTensor, "ok")
    /\ UNCHANGED <<workspace_map_, attached, rename_map_>>

\* ------------------------------------------------------ MoveWorkspace
InsertAt(s, p, x) == SubSeq(s, 1, p - 1) \o <<x>> \o SubSeq(s, p, Len(s))

\* a MoveWorkspace that stores ws over an entry of the same name
MoveWorkspaceOverwrite(w, ws) ==
    /\ Call
    /\ UNCHANGED <<name_, tensor_map_, buffer_map_, rename_map_>>
    /\ IF ws = 0
       THEN /\ last' = Outcome("attach", w, NoTensor, NoTensor, "fatal")
            /\ UNCHANGED <<workspace_map_, attached>>
       ELSE /\ workspace_map_' = [workspace_map_ EXCEPT ![w] =
                 Append(SelectSeq(@, LAMBDA v : name_[v] # name_[ws]), ws)]
            /\ attached' = [attached EXCEPT ![w] = Append(@, ws)]
            /\ last' = Outcome("attach", w, WorkspacePtr(ws), NoTensor, "ok")

\* ws = 0 is the null pointer.  workspace_map_[w] lists the composed
\* workspaces in the order the map iterates them, which the map type
\* does not tie to the order of insertion: a new entry may land anywhere.
MoveWorkspace(w, ws) ==
    /\ Call
    /\ UNCHANGED <<name_, tensor_map_, buffer_map_, rename_map_>>
    /\ IF ws = 0
       THEN /\ last' = Outcome("attach", w, NoTensor, NoTensor, "fatal")
            /\ UNCHANGED <<workspace_map_, attached>>
       ELSE IF \E i \in 1..Len(workspace_map_[w]) : name_[workspace_map_[w][i]] = name_[ws]
       THEN /\ last' = Outcome("attach", w, WorkspacePtr(CHOOSE v \in Remotes(w) : name_[v] = name_[ws]), NoTensor, "ok")
            /\ UNCHANGED <<workspace_map_, attached>>
       ELSE /\ \E p \in 1..(Len(workspace_map_[w]) + 1) :
                 workspace_map_' = [workspace_map_ EXCEPT ![w] = InsertAt(@, p, ws)]
            /\ attached' = [attached EXCEPT ![w] = Append(@, ws)]
            /\ last' = Outcome("attach", w, WorkspacePtr(ws), NoTensor, "ok")

\* ------------------------------------------------------- CreateRename
CreateRename(w, old_tensor, new_tensor) ==
    /\ Call
    /\ rename_map_' = [rename_map_ EXCEPT ![w] = Put(@, old_tensor, new_tensor)]
    /\ last' = Outcome("alias", w, NoTensor, NoTensor, "ok")
    /\ UNCHANGED <<name_, workspace_map_, attached, tensor_map_, buffer_map_>>

\* ------------------------------------------------------- CreateTensor
CreateTensor(w, name) ==
    /\ Call
    /\ UNCHANGED <<name_, workspace_map_, attached, buffer_map_, rename_map_>>
    /\ IF Recurses(w)
       THEN /\ last' = Outcome("create", w, NoTensor, NoTensor, "overflow")
            /\ UNCHANGED tensor_map_
       ELSE LET tm == CreateTensorMap(tensor_map_, w, name)
                query == GetTensorName(w, name)
            IN  /\ tm[w][query] <= MaxGen
                /\ tensor_map_' = tm
                /\ last' = Outcome("create", w, TensorAt(tm, w, query), NoTensor, "ok")

\* ---------------------------------------------------------- GetTensor
GetTensor(w, name, use_remote) ==
    /\ Call
    /\ LET r == GetTensorRet(w, name, use_remote)
       IN  last' = Outcome("get", w, r.ret, NoTensor, r.out)
    /\ UNCHANGED <<name_, workspace_map_, attached, tensor_map_, buffer_map_, rename_map_>>

\* ------------------------------------------------------ ReleaseTensor
\* how ReleaseTensor(name) in w can end, as <<out, tensor reset>>; Reset()
\* through a null unique_ptr is undefined: the process dies or the call
\* returns with nothing reset
ReleaseTensorEnds(w, name) ==
    IF ~HasTensor(tensor_map_, w, name, FALSE) THEN {<<"fatal", NoTensor>>}
    ELSE LET query == GetTensorName(w, name)
         IN  IF tensor_map_[w][query] = 0
             THEN {<<"crash", NoTensor>>, <<"ok", NoTensor>>}
             ELSE {<<"ok", TensorAt(tensor_map_, w, query)>>}

\* a ReleaseTensor that puts a new tensor in the place of the old one
ReleaseTensorRenew(w, name) ==
    /\ Call
    /\ UNCHANGED <<name_, workspace_map_, attached, buffer_map_, rename_map_>>
    /\ IF ~HasTensor(tensor_map_, w, name, FALSE)
       THEN /\ last' = Outcome("release", w, NoTensor, NoTensor, "fatal")
            /\ UNCHANGED tensor_map_
       ELSE LET query == GetTensorName(w, name)
            IN  /\ tensor_map_[w][query] < MaxGen
                /\ tensor_map_' = [tensor_map_ EXCEPT ![w][query] = @ + 1]
                /\ last' = Outcome("release", w, NoTensor,
                                   TensorAt(tensor_map_, w, query), "ok")

ReleaseTensor(w, name) ==
    /\ Call
    /\ \E e \in ReleaseTensorEnds(w, name) :
          last' = Outcome("release", w, NoTensor, e[2], e[1])
    /\ UNCHANGED <<name_, workspace_map_, attached, tensor_map_, buffer_map_, rename_map_>>

\* ------------------------------------------------------- CreateBuffer
CreateBuffer(w, category, num) ==
    /\ Call
    /\ UNCHANGED <<name_, workspace_map_, attached, rename_map_>>
    /\ IF category \in DOMAIN buffer_map_[w]
       THEN /\ last' = Outcome("create_buffer", w, NoTensor, NoTensor, "fatal")
            /\ UNCHANGED <<buffer_map_, tensor_map_>>
       ELSE IF num >= 1 /\ Recurses(w)
       THEN \* the first CreateTensor never returns
            /\ buffer_map_' = [buffer_map_ EXCEPT ![w] =
                                  Put(@, category, <<BufferName(category, 1)>>)]
            /\ UNCHANGED tensor_map_
            /\ last' = Outcome("create_buffer", w, NoTensor, NoTensor, "overflow")
       ELSE LET m == CreateBufferMaps(buffer_map_, tensor_map_, w, category, num)
            IN  /\ \A k \in DOMAIN m[2][w] : m[2][w][k] <= MaxGen
                /\ buffer_map_' = m[1]
                /\ tensor_map_' = m[2]
                /\ last' = Outcome("create_buffer", w, NoTensor, NoTensor, "ok")

\* ---------------------------------------------------------- GetBuffer
\* buffer_map_[category]: operator[] makes an empty stack for a new key
Stack(w, category) ==
    IF category \in DOMAIN buffer_map_[w] THEN buffer_map_[w][category] ELSE <<>>

\* a GetBuffer that reads the top of the stack and leaves it there
GetBufferPeek(w, category) ==
    /\ BufferCall
    /\ UNCHANGED <<name_, workspace_map_, attached, rename_map_, tensor_map_>>
    /\ LET stack == Stack(w, category)
       IN  IF stack # <<>>
           THEN LET t == TensorAt(tensor_map_, w, stack[Len(stack)])
                IN  /\ buffer_map_' = [buffer_map_ EXCEPT ![w] = Put(@, category, stack)]
                    /\ last' = Outcome("acquire", w, t, NoTensor, "ok")
                    /\ held' = held \cup {<<w, category, t>>}
           ELSE /\ buffer_map_' = [buffer_map_ EXCEPT ![w] = Put(@, category, <<>>)]
                /\ last' = Outcome("acquire", w, NoTensor, NoTensor, "fatal")
                /\ UNCHANGED held

GetBuffer(w, category) ==
    /\ BufferCall
    /\ UNCHANGED <<name_, workspace_map_, attached, rename_map_>>
    /\ LET stack == Stack(w, category)
       IN  IF stack # <<>>
           THEN LET name == stack[Len(stack)]
                    tm == IF name \in DOMAIN tensor_map_[w] THEN tensor_map_
                          ELSE [tensor_map_ EXCEPT ![w] = Put(@, name, 0)]
                IN  /\ buffer_map_' = [buffer_map_ EXCEPT ![w] =
                                          Put(@, category, SubSeq(stack, 1, Len(stack) - 1))]
                    /\ tensor_map_' = tm
                    /\ last' = Outcome("acquire", w, TensorAt(tm, w, name), NoTensor, "ok")
                    /\ held' = held \cup {<<w, category, TensorAt(tm, w, name)>>}
           ELSE /\ buffer_map_' = [buffer_map_ EXCEPT ![w] = Put(@, category, <<>>)]
                /\ UNCHANGED tensor_map_
                /\ last' = Outcome("acquire", w, NoTensor, NoTensor, "fatal")
                /\ UNCHANGED held

\* ------------------------------------------------------ ReleaseBuffer
\* tensor is a live Tensor*; tensor->name() is its key, tensor[2]
ReleaseBuffer(w, tensor, category, enforce) ==
    /\ BufferCall
    /\ held' = held \ {<<w, category, tensor>>}
    /\ UNCHANGED <<name_, workspace_map_, attached, tensor_map_, rename_map_>>
    /\ LET stack == Stack(w, category)
       IN  IF Len(stack) >= limits(category) \/ enforce
           THEN /\ buffer_map_' = [buffer_map_ EXCEPT ![w] = Put(@, category, stack)]
                /\ \E e \in ReleaseTensorEnds(w, tensor[2]) :
                      last' = Outcome("release_buffer", w, NoTensor, e[2], e[1])
           ELSE /\ buffer_map_' = [buffer_map_ EXCEPT ![w] =
                                      Put(@, category, Append(stack, tensor[2]))]
                /\ last' = Outcome("release_buffer", w, NoTensor, NoTensor, "ok")

\* the pointers handed to ReleaseBuffer: the buffers of the category and
\* the tensors named "x", of any workspace
Releasable(category) ==
    {t \in LiveTensors :
        t[2] \in {"x"} \cup {BufferName(category, i) : i \in 1..(MaxNum + 1)}}

\* ---------------------------------------------- CreateFiller, GetFiller
\* the rest of a call that is not one of the tensor and buffer methods
OtherCall ==
    /\ Running /\ calls < MaxCalls /\ calls' = calls + 1
    /\ UNCHANGED <<locks, name_, workspace_map_, attached, tensor_map_, buffer_map_,
                   rename_map_, held>>

\* a CreateFiller that stores the filler over the one already there
CreateFillerOverwrite(w, filler) ==
    /\ OtherCall
    /\ UNCHANGED graph_map_
    /\ IF filler[1] = ""
       THEN /\ last' = Outcome("define_filler", w, NoTensor, NoTensor, "fatal")
            /\ UNCHANGED <<filler_map_, defined>>
       ELSE /\ filler_map_' = [filler_map_ EXCEPT ![w] = Put(@, filler[1], filler)]
            /\ defined' = [defined EXCEPT ![w] = Append(@, filler)]
            /\ last' = Outcome("define_filler", w, NoTensor, NoTensor, "ok")

CreateFiller(w, filler) ==
    /\ OtherCall
    /\ UNCHANGED graph_map_
    /\ IF filler[1] = ""
       THEN /\ last' = Outcome("define_filler", w, NoTensor, NoTensor, "fatal")
            /\ UNCHANGED <<filler_map_, defined>>
       ELSE /\ defined' = [defined EXCEPT ![w] = Append(@, filler)]
            /\ last' = Outcome("define_filler", w, NoTensor, NoTensor, "ok")
            /\ IF filler[1] \in DOMAIN filler_map_[w]
               THEN UNCHANGED filler_map_
               ELSE filler_map_' = [filler_map_ EXCEPT ![w] = Put(@, filler[1], filler)]

\* &filler_map_[name] as <<workspace, name, type of the filler stored>>
GetFillerRet(w, name) ==
    IF name \in DOMAIN filler_map_[w] THEN <<w, name, filler_map_[w][name][2]>>
    ELSE NullTensor

GetFiller(w, name) ==
    /\ OtherCall
    /\ last' = Outcome("lookup_filler", w, GetFillerRet(w, name), NoTensor, "ok")
    /\ UNCHANGED <<filler_map_, graph_map_, defined>>

NextFiller ==
    \/ \E name \in WsNames : Construct(name)
    \/ \E w \in Workspaces, filler \in Fillers : CreateFiller(w, filler)
    \/ \E w \in Workspaces, name \in FillerNames : GetFiller(w, name)

FillerSpec == Init /\ [][NextFiller]_vars

\* ------------------------------------------ CreateGraph, RunGraph, GetGraphs
\* CreateGraph(meta_graph) is only declared in the header: the graph is
\* stored under the name of its definition, replacing one of that name
CreateGraph(w, graph_name) ==
    /\ OtherCall
    /\ graph_map_' = [graph_map_ EXCEPT ![w] = @ \cup {graph_name}]
    /\ last' = Outcome("create_graph", w, NoTensor, NoTensor, "ok")
    /\ UNCHANGED <<filler_map_, defined>>

\* a RunGraph that looks the graph up with operator[]
RunGraphInsert(w, graph_name) ==
    /\ OtherCall
    /\ UNCHANGED <<filler_map_, defined>>
    /\ IF graph_name \notin graph_map_[w]
       THEN /\ graph_map_' = [graph_map_ EXCEPT ![w] = @ \cup {graph_name}]
            /\ last' = Outcome("run_graph", w, Bool(FALSE), NoTensor, "ok")
       ELSE /\ UNCHANGED graph_map_
            /\ \E b \in BOOLEAN : last' = Outcome("run_graph", w, Bool(b), NoTensor, "ok")

\* LOG(ERROR) reports and returns; what Run(include, exclude) of a stored
\* graph returns is up to the graph
RunGraph(w, graph_name) ==
    /\ OtherCall
    /\ UNCHANGED <<filler_map_, graph_map_, defined>>
    /\ IF graph_name \notin graph_map_[w]
       THEN last' = Outcome("run_graph", w, Bool(FALSE), NoTensor, "ok")
       ELSE \E b \in BOOLEAN : last' = Outcome("run_graph", w, Bool(b), NoTensor, "ok")

\* the names GetGraphs() returns, as a set
GetGraphs(gm, w) == gm[w]

NextGraph ==
    \/ \E name \in WsNames : Construct(name)
    \/ \E w \in Workspaces : CreateTensor(w, "x")
    \/ \E w \in Workspaces, graph_name \in GraphNames : CreateGraph(w, graph_name)
    \/ \E w \in Workspaces, graph_name \in RunNames : RunGraph(w, graph_name)

GraphSpec == Init /\ [][NextGraph]_vars

\* --------------------------------------------------------------- Next
Next ==
    \/ \E name \in WsNames : Construct(name)
    \/ \E w \in Workspaces, ws \in {0} \cup Workspaces : MoveWorkspace(w, ws)
    \/ \E w \in Workspaces, p \in AliasPairs : CreateRename(w, p[1], p[2])
    \/ \E w \in Workspaces, name \in Names : CreateTensor(w, name)
    \/ \E w \in Workspaces, name \in Names, use_remote \in BOOLEAN :
          GetTensor(w, name, use_remote)
    \/ \E w \in Workspaces, name \in Names : ReleaseTensor(w, name)
    \/ \E w \in Workspaces, category \in Categories, num \in 1..MaxNum :
          CreateBuffer(w, category, num)
    \/ \E w \in Workspaces, category \in Categories : GetBuffer(w, category)
    \/ \E w \in Workspaces, category \in Categories, enforce \in BOOLEAN :
          \E tensor \in Releasable(category) : ReleaseBuffer(w, tensor, category, enforce)

Spec == Init /\ [][Next]_vars

\* ------------------------------------------------ the buffer pool alone
NextBuffer ==
    \/ \E name \in WsNames : Construct(name)
    \/ \E w \in Workspaces : CreateTensor(w, "x")
    \/ \E w \in Workspaces, category \in Categories, num \in 1..MaxNum :
          CreateBuffer(w, category, num)
    \/ \E w \in Workspaces, category \in Categories : GetBuffer(w, category)
    \/ \E w \in Workspaces, category \in Categories, enforce \in BOOLEAN :
          \E tensor \in Releasable(category) : ReleaseBuffer(w, tensor, category, enforce)

BufferSpec == Init /\ [][NextBuffer]_vars

\* ------------------------------------ HasTensor and GetTensors, called
\* HasTensor(name, use_remote) as a call of its own
HasTensorCall(w, name, use_remote) ==
    /\ Call
    /\ UNCHANGED <<name_, workspace_map_, attached, tensor_map_, buffer_map_, rename_map_>>
    /\ IF use_remote /\ Recurses(w)
       THEN last' = Outcome("exists", w, NoTensor, NoTensor, "overflow")
       ELSE last' = Outcome("exists", w, Bool(HasTensor(tensor_map_, w, name, use_remote)),
                            NoTensor, "ok")

\* the number of names GetTensors() returns: the local keys, then the
\* names of every composed workspace
RECURSIVE GetTensorsSize(_)
GetTensorsSize(w) ==
    LET RECURSIVE Sub(_)
        Sub(i) == IF i > Len(workspace_map_[w]) THEN 0
                  ELSE GetTensorsSize(workspace_map_[w][i]) + Sub(i + 1)
    IN  Cardinality(DOMAIN tensor_map_[w]) + Sub(1)

GetTensors(w) ==
    /\ Call
    /\ UNCHANGED <<name_, workspace_map_, attached, tensor_map_, buffer_map_, rename_map_>>
    /\ IF Recurses(w)
       THEN last' = Outcome("list", w, NoTensor, NoTensor, "overflow")
       ELSE last' = Outcome("list", w, <<w, "names", GetTensorsSize(w)>>, NoTensor, "ok")

\* ----------------------------------------------- lookups and the cycles
NextCycle ==
    \/ \E name \in WsNames : Construct(name)
    \/ \E w \in Workspaces, ws \in Workspaces : MoveWorkspace(w, ws)
    \/ \E w \in Workspaces : CreateTensor(w, "x")
    \/ \E w \in Workspaces, use_remote \in BOOLEAN : GetTensor(w, "x", use_remote)
    \/ \E w \in Workspaces, use_remote \in BOOLEAN : HasTensorCall(w, "x", use_remote)
    \/ \E w \in Workspaces : GetTensors(w)

CycleSpec == Init /\ [][NextCycle]_vars

\* -------------------------------------------- HasTensor beside GetTensor
NextAgree ==
    \/ \E name \in WsNames : Construct(name)
    \/ \E w \in Workspaces, ws \in Workspaces : MoveWorkspace(w, ws)
    \/ \E w \in Workspaces, p \in AliasPairs : CreateRename(w, p[1], p[2])
    \/ \E w \in Workspaces, name \in Names : CreateTensor(w, name)
    \/ \E w \in Workspaces, use_remote \in BOOLEAN : GetTensor(w, "x", use_remote)
    \/ \E w \in Workspaces, use_remote \in BOOLEAN : HasTensorCall(w, "x", use_remote)

AgreeSpec == Init /\ [][NextAgree]_vars

\* ------------------------------------- one tensor: create, fetch, release
NextFetch ==
    \/ \E name \in WsNames : Construct(name)
    \/ \E w \in Workspaces, ws \in Workspaces : MoveWorkspace(w, ws)
    \/ \E w \in Workspaces, p \in AliasPairs : CreateRename(w, p[1], p[2])
    \/ \E w \in Workspaces : CreateTensor(w, "x")
    \/ \E w \in Workspaces, use_remote \in BOOLEAN : GetTensor(w, "x", use_remote)
    \/ \E w \in Workspaces : ReleaseTensor(w, "x")
    \/ \E w \in Workspaces : GetBuffer(w, "Grad")
    \/ \E w \in Workspaces, tensor \in Releasable("Grad") :
          ReleaseBuffer(w, tensor, "Grad", FALSE)

FetchSpec == Init /\ [][NextFetch]_vars

\* -------------------- the buffer pool, used as its callers are meant to
\* ReleaseBuffer is given, for a category, only what GetBuffer of that
\* category returned and what was not given back since
NextPool ==
    \/ \E name \in WsNames : Construct(name)
    \/ \E w \in Workspaces, ws \in Workspaces : MoveWorkspace(w, ws)
    \/ \E w \in Workspaces, category \in Categories, num \in 1..MaxNum :
          CreateBuffer(w, category, num)
    \/ \E w \in Workspaces, category \in Categories : GetBuffer(w, category)
    \/ \E h \in held, enforce \in BOOLEAN :
          h[3] # NullTensor /\ ReleaseBuffer(h[1], h[3], h[2], enforce)

PoolSpec == Init /\ [][NextPool]_vars

\* ------------------------------------------------ the composition alone
NextAttach ==
    \/ \E name \in WsNames : Construct(name)
    \/ \E w \in Workspaces, ws \in {0} \cup Workspaces : MoveWorkspace(w, ws)
    \/ \E w \in Workspaces : CreateTensor(w, "x")

AttachSpec == Init /\ [][NextAttach]_vars

\* ------------------------------------------- LockTensor / UnlockTensor
\* Threads call LockTensor(name) and then UnlockTensor(name) on workspace
\* 1.  Nothing in either function is atomic but the mutex itself, so a
\* thread takes one step per statement: the test of lock_map_.count, the
\* assignment of a new mutex, and the lock() or unlock() of the mutex the
\* map holds at that moment.  A mutex is named <<query, creating thread>>.
LockWs == 1

Mutex(t) == <<GetTensorName(LockWs, arg[t]), t>>

\* LockTensor(name) is called: string query = GetTensorName(name)
LockCall(t, name) ==
    /\ pc[t] = "idle"
    /\ arg' = [arg EXCEPT ![t] = name]
    /\ pc' = [pc EXCEPT ![t] = "lock_count"]
    /\ UNCHANGED <<maps, last, calls, lock_map_, owner>>

\* if (!lock_map_.count(query)), in LockTensor and in UnlockTensor
CountLock(t) ==
    /\ pc[t] \in {"lock_count", "unlock_count"}
    /\ LET query == GetTensorName(LockWs, arg[t])
           miss == query \notin DOMAIN lock_map_[LockWs]
       IN  pc' = [pc EXCEPT ![t] =
                     IF pc[t] = "lock_count"
                     THEN (IF miss THEN "lock_new" ELSE "lock_lock")
                     ELSE (IF miss THEN "unlock_new" ELSE "unlock_unlock")]
    /\ UNCHANGED <<maps, last, calls, lock_map_, owner, arg>>

\* lock_map_[query] = unique_ptr<mutex>(new mutex): the mutex another
\* thread stored in the meantime is replaced (and destroyed)
NewLock(t) ==
    /\ pc[t] \in {"lock_new", "unlock_new"}
    /\ lock_map_' = [lock_map_ EXCEPT ![LockWs] =
                        Put(@, GetTensorName(LockWs, arg[t]), Mutex(t))]
    /\ owner' = Put(owner, Mutex(t), 0)
    /\ pc' = [pc EXCEPT ![t] = IF pc[t] = "lock_new" THEN "lock_lock" ELSE "unlock_unlock"]
    /\ UNCHANGED <<maps, last, calls, arg>>

\* lock_map_[query]->lock(): blocks while the mutex is held
Lock(t) ==
    /\ pc[t] = "lock_lock"
    /\ LET m == lock_map_[LockWs][GetTensorName(LockWs, arg[t])]
       IN  /\ owner[m] = 0
           /\ owner' = [owner EXCEPT ![m] = t]
    /\ pc' = [pc EXCEPT ![t] = "locked"]
    /\ UNCHANGED <<maps, last, calls, lock_map_, arg>>

\* UnlockTensor(name) is called with the name that was locked
UnlockCall(t) ==
    /\ pc[t] = "locked"
    /\ pc' = [pc EXCEPT ![t] = "unlock_count"]
    /\ UNCHANGED <<maps, last, calls, lock_map_, owner, arg>>

\* lock_map_[query]->unlock().  Unlocking a mutex the thread does not hold
\* is undefined: the mutex is released or stays as it is
Unlock(t) ==
    /\ pc[t] = "unlock_unlock"
    /\ LET m == lock_map_[LockWs][GetTensorName(LockWs, arg[t])]
       IN  \E o \in (IF owner[m] = t THEN {0} ELSE {0, owner[m]}) :
              owner' = [owner EXCEPT ![m] = o]
    /\ pc' = [pc EXCEPT ![t] = "idle"]
    /\ UNCHANGED <<maps, last, calls, lock_map_, arg>>

\* the owner thread defines an alias before the threads use the locks
AliasBeforeLocks ==
    /\ \A t \in Threads : pc[t] = "idle"
    /\ lock_map_[LockWs] = EmptyMap
    /\ \E p \in AliasPairs : CreateRename(LockWs, p[1], p[2])

NextLock ==
    \/ AliasBeforeLocks
    \/ \E t \in Threads, name \in LockNames : LockCall(t, name)
    \/ \E t \in Threads : CountLock(t)
    \/ \E t \in Threads : NewLock(t)
    \/ \E t \in Threads : Lock(t)
    \/ \E t \in Threads : UnlockCall(t)
    \/ \E t \in Threads : Unlock(t)

LockSpec == Init /\ [][NextLock]_vars

\* =================================================================
\* The claims
\* =================================================================

\* an allocated tensor is stored under key in w
Allocated(w, key) == key \in DOMAIN tensor_map_[w] /\ tensor_map_[w][key] > 0

\* a workspace that is searched for name owns it: w itself, or with remote
\* a composed workspace, each through its own alias table (acyclic w only)
RECURSIVE Owns(_, _, _)
Owns(w, name, remote) ==
    LET query == GetTensorName(w, name)
    IN  Allocated(w, query) \/ (remote /\ \E v \in Remotes(w) : Owns(v, query, TRUE))

SetMin(S) == CHOOSE i \in S : \A j \in S : i <= j

\* C1: local creation shadows remote.  Whenever w has no local entry for
\* the resolved name n and a workspace composed into w (directly or
\* transitively) owns n, CreateTensor(n) in w allocates a new tensor under
\* n in w's own tensor_map_ and returns a non-null pointer to it (a tensor
\* of w, so not the remote one), and no other workspace's tensor_map_
\* changes.  Stated for compositions without a cycle.
C1_LocalCreationShadowsRemote ==
    [][\A w \in 1..MaxWs, name \in Names :
          LET n == GetTensorName(w, name)
          IN  (/\ ~Recurses(w)
               /\ CreateTensor(w, name)
               /\ n \notin DOMAIN tensor_map_[w]
               /\ \E v \in Composed(w) : Allocated(v, n))
              => /\ last'.out = "ok"
                 /\ last'.ret = <<w, n, 1>>
                 /\ tensor_map_'[w] = Put(tensor_map_[w], n, 1)
                 /\ \A v \in (1..MaxWs) \ {w} : tensor_map_'[v] = tensor_map_[v]]_vars

\* C2: alias resolution is exactly one hop.  With old -> mid in the alias
\* table of w (whatever mid itself is mapped to), CreateTensor(old) looks
\* only at key mid: if mid is in tensor_map_ nothing changes and the tensor
\* under mid is returned, otherwise one tensor is allocated under mid and
\* returned; either way the result is a real tensor under mid.  Stated
\* for a workspace with no composed workspaces.
C2_CreateResolvesOneHop ==
    [][\A w \in 1..MaxWs, old \in Names :
          (/\ old \in DOMAIN rename_map_[w]
           /\ Remotes(w) = {}
           /\ CreateTensor(w, old))
          => LET mid == rename_map_[w][old]
             IN  /\ last'.out = "ok"
                 /\ tensor_map_'[w][mid] > 0
                 /\ IF mid \in DOMAIN tensor_map_[w]
                    THEN /\ tensor_map_' = tensor_map_
                         /\ last'.ret = TensorAt(tensor_map_, w, mid)
                    ELSE /\ tensor_map_' = [tensor_map_ EXCEPT ![w] = Put(@, mid, 1)]
                         /\ last'.ret = <<w, mid, 1>>]_vars

\* C3: GetTensor never returns a null pointer.  In every reachable state
\* GetTensor(n, remote) either returns a pointer to an allocated tensor or
\* ends in the fatal error, and it is fatal exactly when no searched
\* workspace owns the resolved name.  Stated for searches that meet no
\* cycle of the composition.
C3_GetTensorNeverNull ==
    [][\A w \in 1..MaxWs, name \in Names, remote \in BOOLEAN :
          (/\ ~(remote /\ Recurses(w))
           /\ GetTensor(w, name, remote))
          => /\ last'.out \in {"ok", "fatal"}
             /\ last'.out = "ok" => last'.ret \in LiveTensors
             /\ last'.out = "fatal" <=> ~Owns(w, name, remote)]_vars

\* C4: hierarchical fetch.  When w has no local tensor for the resolved
\* name x and some workspace attached to w has x (locally or through its
\* own composition), GetTensor(x, true) in w returns what W.GetTensor(x)
\* returns, W being the first workspace, in the order of attachment to w,
\* that has x.  Stated for compositions without a cycle.
C4_HierarchicalFetch ==
    [][\A w \in 1..MaxWs, name \in Names :
          LET x == GetTensorName(w, name)
              having == {i \in 1..Len(attached[w]) :
                            HasTensor(tensor_map_, attached[w][i], x, TRUE)}
          IN  (/\ ~Recurses(w)
               /\ GetTensor(w, name, TRUE)
               /\ ~Allocated(w, x)
               /\ having # {})
              => /\ last'.out = "ok"
                 /\ last'.ret = GetTensorRet(attached[w][SetMin(having)], x, TRUE).ret]_vars

\* C5: the capacity rule of the default categories.  The stack of Common
\* never holds more than 2 names and the stack of Grad never more than 1;
\* ReleaseBuffer(tensor, C, false) pushes the tensor's name and resets
\* nothing when the stack holds fewer than cap(C) names, and resets that
\* tensor and pushes nothing when the stack holds cap(C) names or more.
\* Stated for the tensors of the calling workspace itself.
C5_BufferCapacityRule ==
    /\ [](\A w \in Workspaces :
             Len(Stack(w, "Common")) <= 2 /\ Len(Stack(w, "Grad")) <= 1)
    /\ [][\A w \in 1..MaxWs, category \in {"Common", "Grad"}, tensor \in LiveTensors :
             (tensor[1] = w /\ ReleaseBuffer(w, tensor, category, FALSE))
             => /\ last'.out = "ok"
                /\ IF Len(Stack(w, category)) < (IF category = "Common" THEN 2 ELSE 1)
                   THEN /\ buffer_map_'[w][category] = Append(Stack(w, category), tensor[2])
                        /\ last'.reset = NoTensor
                   ELSE /\ buffer_map_'[w][category] = Stack(w, category)
                        /\ last'.reset = tensor]_vars

\* C6: exhaustion is fatal and GetBuffer never returns a null pointer.
\* GetBuffer(C) on an empty or never created stack ends in the fatal
\* error; on a non-empty stack it pops the top name and returns a pointer
\* to an allocated tensor of that name in the calling workspace.
C6_GetBufferNeverNull ==
    [][\A w \in 1..MaxWs, category \in Categories :
          GetBuffer(w, category)
          => IF Stack(w, category) = <<>>
             THEN last'.out = "fatal"
             ELSE LET stack == Stack(w, category)
                  IN  /\ last'.out = "ok"
                      /\ last'.ret \in LiveTensors
                      /\ last'.ret[1] = w
                      /\ last'.ret[2] = stack[Len(stack)]
                      /\ buffer_map_'[w][category] = SubSeq(stack, 1, Len(stack) - 1)]_vars

\* C7: pool-in-registry.  While the process runs, every name on the stack
\* of every buffer category of a workspace is the key of an allocated
\* tensor in that workspace's own tensor_map_.
C7_PoolInRegistry ==
    Running =>
        \A w \in 1..MaxWs : \A category \in DOMAIN buffer_map_[w] :
            \A i \in 1..Len(buffer_map_[w][category]) :
                Allocated(w, buffer_map_[w][category][i])

\* C8: ReleaseTensor(n) succeeds exactly when the resolved name of n has a
\* tensor in the calling workspace's own tensor_map_; then it resets that
\* one tensor and leaves the keys, the alias table and the buffer stacks as
\* they are.  Otherwise it ends in the fatal error and resets nothing.
C8_ReleaseTensorLocalOnly ==
    [][\A w \in 1..MaxWs, name \in Names :
          ReleaseTensor(w, name)
          => LET query == GetTensorName(w, name)
             IN  IF Allocated(w, query)
                 THEN /\ last'.out = "ok"
                      /\ last'.reset = <<w, query, tensor_map_[w][query]>>
                      /\ UNCHANGED <<tensor_map_, rename_map_, buffer_map_>>
                 ELSE /\ last'.out = "fatal"
                      /\ last'.reset = NoTensor]_vars

\* what init() leaves in workspace w: the sentinel and the three buffers
Seeded(tm, bm, w) ==
    /\ tm[w] = [k \in {"ignore", "_t_Common_buffer_1", "_t_Common_buffer_2",
                       "_t_Grad_buffer_1"} |-> 1]
    /\ bm[w] = [c \in {"Common", "Grad"} |->
                   IF c = "Common" THEN <<"_t_Common_buffer_1", "_t_Common_buffer_2">>
                   ELSE <<"_t_Grad_buffer_1">>]

\* C9: construction seeds the defaults and a duplicate category is fatal.
\* Right after Workspace(name) the new workspace's tensor_map_ holds
\* "ignore", 2 Common and 1 Grad buffer tensors, its Common stack 2 names
\* and its Grad stack 1; CreateBuffer(C, n) ends in the fatal error whenever
\* C is already a key of buffer_map_, leaving stacks and tensors unchanged.
C9_ConstructSeedsAndDuplicateFatal ==
    /\ Seeded(tensor_map_, buffer_map_, 1)
    /\ [][/\ last'.op = "construct"
                => \A name \in WsNames :
                      Construct(name) => Seeded(tensor_map_', buffer_map_', last'.ws)
          /\ last'.op = "create_buffer"
                => \A category \in Categories, num \in 1..MaxNum :
                      (/\ category \in DOMAIN buffer_map_[last'.ws]
                       /\ CreateBuffer(last'.ws, category, num))
                      => /\ last'.out = "fatal"
                         /\ UNCHANGED <<buffer_map_, tensor_map_>>]_vars

\* C9 happens: a workspace made by Workspace(name) still holds exactly the
\* seeded defaults and a CreateBuffer in it has just ended in the fatal error
C9_Witness ==
    /\ last.op = "create_buffer" /\ last.out = "fatal" /\ last.ws = 2
    /\ Seeded(tensor_map_, buffer_map_, 2)

\* workspace_map_ of w as the map it is: name -> Workspace*
NameMap(wm, w) ==
    [n \in {name_[wm[w][i]] : i \in 1..Len(wm[w])} |->
        CHOOSE v \in {wm[w][i] : i \in 1..Len(wm[w])} : name_[v] = n]

\* C11: attach is idempotent by name and the first attach wins.  No step
\* changes the workspace a name of the composition is mapped to;
\* MoveWorkspace(ws) of a name not yet present adds name -> ws and returns
\* ws, of a name already present returns the workspace stored earlier and
\* leaves the composition unchanged, and of the null pointer ends in the
\* fatal error and leaves the composition unchanged.
C11_AttachFirstWins ==
    [][/\ \A w \in 1..MaxWs : \A n \in DOMAIN NameMap(workspace_map_, w) :
             /\ n \in DOMAIN NameMap(workspace_map_', w)
             /\ NameMap(workspace_map_', w)[n] = NameMap(workspace_map_, w)[n]
       /\ last'.op = "attach"
             => \A ws \in 0..MaxWs :
                   MoveWorkspace(last'.ws, ws)
                   => LET w == last'.ws
                          old == NameMap(workspace_map_, w)
                      IN  IF ws = 0
                          THEN /\ last'.out = "fatal"
                               /\ workspace_map_' = workspace_map_
                          ELSE IF name_[ws] \in DOMAIN old
                          THEN /\ last'.out = "ok"
                               /\ last'.ret = WorkspacePtr(old[name_[ws]])
                               /\ workspace_map_' = workspace_map_
                          ELSE /\ last'.out = "ok"
                               /\ last'.ret = WorkspacePtr(ws)
                               /\ NameMap(workspace_map_', w) = Put(old, name_[ws], ws)
                               /\ \A v \in (1..MaxWs) \ {w} :
                                     workspace_map_'[v] = workspace_map_[v]]_vars

\* C11 happens: two workspaces of one name were attached to workspace 1 one
\* after the other, and the second call returned the first of them
C11_Witness ==
    /\ calls = 3 /\ name_[2] = name_[1]
    /\ last.op = "attach" /\ last.out = "ok" /\ last.ws = 1
    /\ workspace_map_[2] = <<>> /\ Len(workspace_map_[1]) = 1
    /\ last.ret = WorkspacePtr(workspace_map_[1][1])
    /\ tensor_map_[1] = tensor_map_[2]

\* the calls of CreateFiller in w that named tensor t
DefinedAt(w, t) == {i \in 1..Len(defined[w]) : defined[w][i][1] = t}

\* what lookup_filler(t) is to return in w: the first filler defined for t
FirstDefined(w, t) ==
    IF DefinedAt(w, t) = {} THEN NullTensor
    ELSE <<w, t, defined[w][SetMin(DefinedAt(w, t))][2]>>

\* C12: filler specs are write-once.  In every state GetFiller(t) yields
\* the filler of the first CreateFiller call that named t, and null when
\* there was none; GetFiller returns just that and changes nothing; a
\* CreateFiller for a name that has a filler changes no stored filler; a
\* CreateFiller with an empty tensor name ends in the fatal error and
\* stores nothing.
C12_FillerWriteOnce ==
    /\ [](\A w \in 1..MaxWs, t \in FillerNames : GetFillerRet(w, t) = FirstDefined(w, t))
    /\ [][/\ last'.op = "lookup_filler"
                => /\ \A t \in FillerNames :
                         GetFiller(last'.ws, t) => last'.ret = FirstDefined(last'.ws, t)
                   /\ last'.out = "ok"
                   /\ filler_map_' = filler_map_
          /\ last'.op = "define_filler"
                => \A filler \in Fillers :
                      CreateFiller(last'.ws, filler)
                      => /\ filler[1] = ""
                            => last'.out = "fatal" /\ filler_map_' = filler_map_
                         /\ filler[1] \in DOMAIN filler_map_[last'.ws]
                            => last'.out = "ok" /\ filler_map_' = filler_map_
                         /\ (filler[1] # "" /\ filler[1] \notin DOMAIN filler_map_[last'.ws])
                            => /\ last'.out = "ok"
                               /\ filler_map_' = [filler_map_ EXCEPT ![last'.ws] =
                                                      Put(@, filler[1], filler)]]_vars

\* C12 happens: x was defined twice with different fillers, and a lookup
\* of x has just returned the first of them
C12_Witness ==
    /\ last.op = "lookup_filler"
    /\ \E w \in Workspaces :
          /\ Len(defined[w]) >= 2
          /\ defined[w][1] = <<"x", 2>> /\ defined[w][2] = <<"x", 1>>
          /\ last.ret = <<w, "x", 2>>

\* C13: RunGraph of a name that is not in graph_map_ returns false, does
\* not end in the fatal error, and leaves graph_map_ (so the names
\* GetGraphs reports), tensor_map_ and the buffer stacks unchanged.
C13_RunUnknownGraph ==
    [][last'.op = "run_graph"
          => \A graph_name \in RunNames :
                (/\ graph_name \notin graph_map_[last'.ws]
                 /\ RunGraph(last'.ws, graph_name))
                => /\ last'.out = "ok"
                   /\ last'.ret = Bool(FALSE)
                   /\ \A w \in 1..MaxWs :
                         GetGraphs(graph_map_', w) = GetGraphs(graph_map_, w)
                   /\ UNCHANGED <<graph_map_, tensor_map_, buffer_map_>>]_vars

\* C13 happens: a workspace that holds a tensor x and no graph while the
\* other one holds graphs has just run a graph, and got false
C13_Witness ==
    /\ last.op = "run_graph" /\ last.out = "ok" /\ last.ret = Bool(FALSE)
    /\ graph_map_[last.ws] = {}
    /\ "x" \in DOMAIN tensor_map_[last.ws]
    /\ \E w \in Workspaces : graph_map_[w] # {}

\* C14: create-then-fetch.  Right after CreateTensor(n) has returned h in
\* w, HasTensor(n, false) is true and GetTensor(n) yields h; and while
\* HasTensor(n, false) is true, no release_tensor, buffer acquire or
\* release, attach or fetch changes what GetTensor(n) yields or makes
\* HasTensor(n, false) false.  (h is the null pointer when CreateTensor
\* found the name in a composed workspace; GetTensor then yields null too.)
C14_CreateThenFetch ==
    [][/\ (last'.op = "create" /\ last'.out = "ok")
             => \A w \in 1..MaxWs, n \in Names :
                   (w = last'.ws /\ CreateTensor(w, n))
                   => /\ HasTensor(tensor_map_, w, n, FALSE)'
                      /\ \A r \in BOOLEAN :
                            GetTensorRet(w, n, r)' = [out |-> "ok", ret |-> last'.ret]
       /\ last'.op \in {"release", "acquire", "release_buffer", "attach", "get"}
             => \A w \in 1..MaxWs, n \in Names :
                   HasTensor(tensor_map_, w, n, FALSE)
                   => /\ HasTensor(tensor_map_, w, n, FALSE)'
                      /\ \A r \in BOOLEAN :
                            GetTensorRet(w, n, r)' = GetTensorRet(w, n, r)]_vars

\* C14 happens: in a workspace with a composed workspace and an alias, a
\* fetch has just returned the tensor the workspace had created
C14_Witness ==
    /\ last.op = "get" /\ last.out = "ok"
    /\ last.ret = <<last.ws, "y", 1>>
    /\ "x" \in DOMAIN rename_map_[last.ws]
    /\ workspace_map_[last.ws] # <<>>
    /\ Len(Stack(last.ws, "Grad")) = 0

\* the names on a stack
OnStack(w, category) == {Stack(w, category)[i] : i \in 1..Len(Stack(w, category))}

\* tensor is a buffer of category in w that is not on the stack: one that
\* GetBuffer(category) handed out and that was not given back
Held(w, tensor, category) ==
    /\ tensor \in LiveTensors
    /\ tensor[1] = w
    /\ \E i \in 1..(MaxNum + 1) : tensor[2] = BufferName(category, i)
    /\ tensor[2] \notin OnStack(w, category)

\* C15: recycling works for every category.  For every created category
\* C, the defaults or not, ReleaseBuffer(h, C, false) of a buffer h of C
\* that is held pushes the name of h back on the stack of C and resets
\* no tensor.
C15_RecycleEveryCategory ==
    [][last'.op = "release_buffer"
          => \A category \in Categories, tensor \in LiveTensors :
                (/\ category \in DOMAIN buffer_map_[last'.ws]
                 /\ Held(last'.ws, tensor, category)
                 /\ ReleaseBuffer(last'.ws, tensor, category, FALSE))
                => /\ last'.out = "ok"
                   /\ last'.reset = NoTensor
                   /\ buffer_map_'[last'.ws][category] =
                         Append(Stack(last'.ws, category), tensor[2])]_vars

\* the composed workspaces GetTensor(name, true) of w calls before the
\* first one that reaches a cycle, and that have the resolved name
Rescuers(w, name) ==
    LET rem == workspace_map_[w]
        bad == {i \in 1..Len(rem) : Recurses(rem[i])}
    IN  {i \in 1..Len(rem) :
            /\ \A j \in bad : i < j
            /\ HasTensor(tensor_map_, rem[i], GetTensorName(w, name), TRUE)}

\* what C16 says of HasTensor, CreateTensor and GetTensors, and of every
\* lookup in a composition without a cycle: a workspace reaches a cycle
\* exactly when the nested calls of HasTensor go deeper than there are
\* workspaces; then HasTensor(n, true), CreateTensor(n) and GetTensors()
\* never return; from a workspace that reaches no cycle HasTensor,
\* GetTensor and GetTensors always return or end in the fatal error
CycleRule ==
    /\ \A w \in 1..MaxWs : Recurses(w) <=> Deep(w, MaxWs + 1)
    /\ \A w \in 1..MaxWs, name \in Names :
          /\ (Recurses(w) /\ (CreateTensor(w, name) \/ HasTensorCall(w, name, TRUE)
                               \/ GetTensors(w)))
                => last'.out = "overflow"
          /\ (~Recurses(w) /\ (\E r \in BOOLEAN : HasTensorCall(w, name, r) \/ GetTensor(w, name, r)))
                => last'.out \in {"ok", "fatal"}
          /\ (~Recurses(w) /\ GetTensors(w)) => last'.out = "ok"

\* C16, as the claim has it: besides CycleRule, every GetTensor(n, true)
\* that misses locally in a workspace that reaches a cycle never returns
C16_CyclicLookupNeverReturns ==
    [][/\ CycleRule
       /\ \A w \in 1..MaxWs, name \in Names :
             (/\ Recurses(w)
              /\ GetTensorName(w, name) \notin DOMAIN tensor_map_[w]
              /\ GetTensor(w, name, TRUE))
             => last'.out = "overflow"]_vars

\* C16, amended: besides CycleRule, a GetTensor(n, true) that misses
\* locally in a workspace that reaches a cycle never returns, unless a
\* composed workspace that has n is called before every composed workspace
\* that reaches a cycle; then the call returns that workspace's tensor
C16_CyclicLookupUnlessFoundFirst ==
    [][/\ CycleRule
       /\ \A w \in 1..MaxWs, name \in Names :
             (/\ Recurses(w)
              /\ GetTensorName(w, name) \notin DOMAIN tensor_map_[w]
              /\ GetTensor(w, name, TRUE))
             => IF Rescuers(w, name) = {}
                THEN last'.out = "overflow"
                ELSE /\ last'.out = "ok"
                     /\ last'.ret = GetTensorRet(workspace_map_[w][SetMin(Rescuers(w, name))],
                                                 GetTensorName(w, name), TRUE).ret]_vars

\* C16 happens: workspace 1 composes workspace 2 and 2 composes 1, and a
\* fetch of x in 1, which has no x, has just failed to return
C16_Witness ==
    /\ workspace_map_[1] = <<2>> /\ workspace_map_[2] = <<1>>
    /\ "x" \notin DOMAIN tensor_map_[1]
    /\ last.op = "get" /\ last.ws = 1 /\ last.out = "overflow"

\* C17: exists and get_tensor agree.  In a workspace that reaches no cycle
\* of the composition, HasTensor(n, r) returns true exactly when
\* GetTensor(n, r) returns without the fatal error, for r true and false
\* and as a result of either call; and HasTensor(n, true) is: the
\* resolved name is a key of the local tensor_map_, or HasTensor(resolved
\* name) is true in some composed workspace.
C17_ExistsAgreesWithGet ==
    [][\A w \in 1..MaxWs, n \in Names, r \in BOOLEAN :
          (w = last'.ws /\ ~Recurses(w))
          => /\ (last'.op = "exists" /\ HasTensorCall(w, n, r))
                => /\ last'.out = "ok"
                   /\ last'.ret = Bool(TRUE) <=> GetTensorRet(w, n, r).out # "fatal"
                   /\ r => last'.ret =
                              Bool(\/ GetTensorName(w, n) \in DOMAIN tensor_map_[w]
                                   \/ \E v \in Remotes(w) :
                                         HasTensor(tensor_map_, v, GetTensorName(w, n), TRUE))
             /\ (last'.op = "get" /\ GetTensor(w, n, r))
                => /\ last'.out \in {"ok", "fatal"}
                   /\ last'.out = "ok" <=> HasTensor(tensor_map_, w, n, r)]_vars

\* C17 happens: a workspace without x of its own, with an alias for x and
\* a composed workspace, was asked whether it has x and said yes
C17_Witness ==
    /\ last.op = "exists" /\ last.ret = Bool(TRUE)
    /\ "x" \in DOMAIN rename_map_[last.ws]
    /\ GetTensorName(last.ws, "x") \notin DOMAIN tensor_map_[last.ws]
    /\ workspace_map_[last.ws] # <<>>

\* the buffers of a category that callers hold
HeldOf(w, category) == {h \in held : h[1] = w /\ h[2] = category}

\* the buffers CreateBuffer(category, n) made in w: n of them
Made(w, category) ==
    {i \in 1..(MaxNum + WORKSPACE_COMMON_BUFFER_SIZE) :
        BufferName(category, i) \in DOMAIN tensor_map_[w]}

\* C18: no buffer is handed out twice.  While the process runs and
\* ReleaseBuffer is given for
\* category C only what GetBuffer(C) returned and was not given back, each
\* name is at most once on the stack of C, no name of a held buffer is on
\* a stack, every held tensor is an allocated one, the pooled and the
\* held buffers of C are together no more than CreateBuffer made, and
\* GetBuffer never returns a tensor that is held.  (The null pointer that
\* GetBuffer can return is no tensor, and cannot be given back.)
C18_NoBufferTwice ==
    /\ [](Running => \A w \in 1..MaxWs : \A category \in DOMAIN buffer_map_[w] :
             /\ Cardinality(OnStack(w, category)) = Len(Stack(w, category))
             /\ \A h \in HeldOf(w, category) :
                   h[3] # NullTensor
                   => /\ h[3] \in LiveTensors
                      /\ \A c \in DOMAIN buffer_map_[w] : h[3][2] \notin OnStack(w, c)
             /\ Len(Stack(w, category)) + Cardinality(HeldOf(w, category))
                   <= Cardinality(Made(w, category)))
    /\ [][(last'.op = "acquire" /\ last'.out = "ok")
             => \A category \in Categories :
                   GetBuffer(last'.ws, category)
                   => \A h \in held : last'.ret = NullTensor \/ h[3] # last'.ret]_vars

\* C18 happens: after three GetBuffer calls and one ReleaseBuffer in the
\* first workspace, both buffers of Common are held
C18_Witness ==
    /\ calls = 4 /\ name_[2] = ""
    /\ DOMAIN buffer_map_[1] = {"Common", "Grad"}
    /\ Cardinality(HeldOf(1, "Common")) = 2
    /\ held = HeldOf(1, "Common")
    /\ last.op = "acquire" /\ last.out = "ok"

\* C19: only CreateBuffer changes the set of categories.  A GetBuffer(C)
\* or ReleaseBuffer(h, C, force) that returns leaves the keys of
\* buffer_map_ as they are in every workspace, so that a CreateBuffer(C, n)
\* after it meets a key C only if a CreateBuffer made it.
C19_OnlyCreateAddsCategory ==
    [][\A category \in Categories :
          (/\ last'.out = "ok"
           /\ \/ (last'.op = "acquire" /\ GetBuffer(last'.ws, category))
              \/ (last'.op = "release_buffer"
                    /\ \E tensor \in LiveTensors, enforce \in BOOLEAN :
                          ReleaseBuffer(last'.ws, tensor, category, enforce)))
          => \A w \in 1..MaxWs : DOMAIN buffer_map_'[w] = DOMAIN buffer_map_[w]]_vars

\* a thread is between the return of LockTensor and the unlock()
Holding(t) == pc[t] \in {"locked", "unlock_count", "unlock_new", "unlock_unlock"}

\* C10: the per-name lock gives mutual exclusion on the resolved name.  No
\* two threads whose names resolve to the same query are both between
\* their LockTensor and their UnlockTensor.
C10_LockMutualExclusion ==
    \A t1 \in Threads, t2 \in Threads :
        (t1 # t2 /\ Holding(t1) /\ Holding(t2))
        => GetTensorName(LockWs, arg[t1]) # GetTensorName(LockWs, arg[t2])

====
